---- MODULE Spec2Model ----
(***************************************************************************)
(* Model of server/database/projection.py: project_dict (path copier),     *)
(* _ReferenceProxy / _ProxyManager (proxy registry) and ProjectionHelper   *)
(* (projection planning, reference join, reference-id expansion).          *)
(*                                                                         *)
(* Python strings are modelled as sequences of one-character strings, so   *)
(* that startswith, slicing, split and sorted are computed as the code     *)
(* computes them.  Python dicts are functions, lists are sequences; a      *)
(* nested document value carries a tag: "dict", "list" or "prim".          *)
(***************************************************************************)
EXTENDS Integers, Sequences, FiniteSets, TLC

VARIABLES data, projection, paths_left, result, copy_status,
          request, plan_pc, doc_projection, ref_projection,
          should_expand, proxies, heap, ncalls, pc, results, raw_results,
          cached_results_paths, tasks, item_idx,
          lock, c_pc, c_batch, c_results, c_pos, c_proxy

copy_vars == <<data, projection, paths_left, result, copy_status>>
plan_vars == <<request, plan_pc, doc_projection, ref_projection>>
manager_vars == <<proxies, heap>>
join_vars == <<should_expand, ncalls, pc, results, raw_results,
               cached_results_paths, tasks, item_idx>>
collect_vars == <<lock, c_pc, c_batch, c_results, c_pos, c_proxy>>
vars == <<copy_vars, plan_vars, manager_vars, join_vars, collect_vars>>

\* what the operations of one component leave alone
copy_frame == <<plan_vars, manager_vars, join_vars, collect_vars>>
plan_frame == <<copy_vars, manager_vars, join_vars, collect_vars>>
join_frame == <<copy_vars, plan_vars, collect_vars>>
collect_frame == <<copy_vars, plan_vars, join_vars>>

(***************************************************************************)
(* Bounds of the model.                                                    *)
(***************************************************************************)
MaxLen == 2
MaxPaths == 3
MaxRequest == 3
MaxDocs == 2
MaxCalls == 2

(***************************************************************************)
(* Strings.                                                                *)
(***************************************************************************)
SEP == "."
STAR == <<"*">>
EmptyStr == <<>>

\* Code points of the characters the model uses (order of sorted()).
Ord(c) ==
    CASE c = "*" -> 42
      [] c = "." -> 46
      [] c = "a" -> 97
      [] c = "b" -> 98
      [] c = "c" -> 99
      [] c = "d" -> 100
      [] c = "e" -> 101
      [] c = "f" -> 102
      [] c = "g" -> 103
      [] c = "i" -> 105
      [] c = "m" -> 109
      [] c = "n" -> 110
      [] c = "q" -> 113
      [] c = "r" -> 114
      [] c = "x" -> 120
      [] c = "y" -> 121
      [] c = "z" -> 122

\* str.startswith
StartsWith(s, prefix) ==
    /\ Len(prefix) <= Len(s)
    /\ SubSeq(s, 1, Len(prefix)) = prefix

\* str.endswith
EndsWith(s, suffix) ==
    /\ Len(suffix) <= Len(s)
    /\ SubSeq(s, Len(s) - Len(suffix) + 1, Len(s)) = suffix

\* s[n:]
SliceFrom(s, n) == SubSeq(s, n + 1, Len(s))

\* s[:-n]
DropLast(s, n) == SubSeq(s, 1, Len(s) - n)

\* str.split(SEP): the segments between separators (never empty as a list)
RECURSIVE Split(_)
Split(s) ==
    IF \A i \in 1..Len(s) : s[i] # SEP
    THEN <<s>>
    ELSE LET i == CHOOSE j \in 1..Len(s) :
                      /\ s[j] = SEP
                      /\ \A k \in 1..(j - 1) : s[k] # SEP
         IN <<SubSeq(s, 1, i - 1)>> \o Split(SubSeq(s, i + 1, Len(s)))

\* SEP.join(parts)
RECURSIVE JoinParts(_)
JoinParts(parts) ==
    IF Len(parts) = 0 THEN EmptyStr
    ELSE IF Len(parts) = 1 THEN parts[1]
    ELSE parts[1] \o <<SEP>> \o JoinParts(Tail(parts))

\* s < t in Python's string order
RECURSIVE StrLess(_, _)
StrLess(s, t) ==
    IF Len(t) = 0 THEN FALSE
    ELSE IF Len(s) = 0 THEN TRUE
    ELSE IF s[1] # t[1] THEN Ord(s[1]) < Ord(t[1])
    ELSE StrLess(Tail(s), Tail(t))

\* sorted(S) for a set of strings
RECURSIVE Sorted(_)
Sorted(S) ==
    IF S = {} THEN <<>>
    ELSE LET m == CHOOSE x \in S : \A y \in S \ {x} : StrLess(x, y)
         IN <<m>> \o Sorted(S \ {m})

(***************************************************************************)
(* Nested document values.                                                 *)
(***************************************************************************)
EmptyDict == [k \in {} |-> 0]
Dict(f) == [t |-> "dict", v |-> f]
List(s) == [t |-> "list", v |-> s]
Prim(p) == [t |-> "prim", v |-> p]
Raise(e) == [t |-> "raise", v |-> e]

IsDict(x) == x.t = "dict"
IsList(x) == x.t = "list"
IsRaise(x) == x.t = "raise"

\* d[k] = val on a dict value
DictSet(d, k, val) ==
    Dict([j \in (DOMAIN d.v) \cup {k} |-> IF j = k THEN val ELSE d.v[j]])

Min(a, b) == IF a <= b THEN a ELSE b

(***************************************************************************)
(* project_dict                                                            *)
(***************************************************************************)

\* [{} for _ in range(len(src_part))], with n = len(src_part)
NewListShort(n) == [i \in 1..(n - 1) |-> Dict(EmptyDict)]
NewList(n) == [i \in 1..n |-> Dict(EmptyDict)]

\* the first exception raised while the list comprehension is evaluated
FirstRaise(elems) ==
    LET i == CHOOSE j \in 1..Len(elems) :
                 /\ IsRaise(elems[j])
                 /\ \A k \in 1..(j - 1) : ~IsRaise(elems[k])
    IN elems[i]

\* copy_path(path_parts, source, destination): the destination after the
\* call, or the exception that leaves it.
RECURSIVE copy_path(_, _, _)
copy_path(path_parts, source, destination) ==
    IF ~IsDict(source) THEN Raise("TypeError")
    ELSE IF Len(path_parts) = 1
    THEN \* last_part: dst[last_part] = src[last_part], KeyError is passed
         IF path_parts[1] \in DOMAIN source.v
         THEN DictSet(destination, path_parts[1], source.v[path_parts[1]])
         ELSE destination
    ELSE LET path_part == path_parts[1]
             rest == Tail(path_parts)
         IN IF path_part \notin DOMAIN source.v
            THEN destination
            ELSE LET src_part == source.v[path_part]
                 IN IF IsDict(src_part)
                    THEN \* dst = dst.setdefault(path_part, {})
                         LET sub == IF path_part \in DOMAIN destination.v
                                    THEN destination.v[path_part]
                                    ELSE Dict(EmptyDict)
                             new == IF IsDict(sub)
                                    THEN copy_path(rest, src_part, sub)
                                    ELSE Raise("AttributeError")
                         IN IF IsRaise(new) THEN new
                            ELSE DictSet(destination, path_part, new)
                    ELSE IF IsList(src_part)
                    THEN IF /\ path_part \in DOMAIN destination.v
                            /\ ~IsList(destination.v[path_part])
                         THEN Raise("TypeError")
                         ELSE IF /\ path_part \in DOMAIN destination.v
                                 /\ Len(destination.v[path_part].v)
                                        # Len(src_part.v)
                         THEN Raise("ValueError")
                         ELSE LET cur == IF path_part \in DOMAIN destination.v
                                         THEN destination.v[path_part].v
                                         ELSE NewList(Len(src_part.v))
                                  \* zip() stops at the shorter list
                                  n == Min(Len(src_part.v), Len(cur))
                                  elems == [i \in 1..n |->
                                              copy_path(rest, src_part.v[i],
                                                        cur[i])]
                              IN IF \E i \in 1..n : IsRaise(elems[i])
                                 THEN FirstRaise(elems)
                                 ELSE DictSet(destination, path_part,
                                              List(elems))
                    ELSE Raise("TypeError")

\* the loop of project_dict over an already sorted list of paths
RECURSIVE copy_paths(_, _, _)
copy_paths(paths, source, destination) ==
    IF Len(paths) = 0 THEN destination
    ELSE LET new == copy_path(Split(Head(paths)), source, destination)
         IN IF IsRaise(new) THEN new
            ELSE copy_paths(Tail(paths), source, new)

\* project_dict(data, projection) as a function of its arguments
project_dict(d, paths) == copy_paths(Sorted(paths), d, Dict(EmptyDict))


(***************************************************************************)
(* The inputs of project_dict that the model explores.                     *)
(***************************************************************************)
Str(parts) == JoinParts(parts)

ElemDocs ==
    { Dict(EmptyDict),
      Dict(<<"x">> :> Prim(1)),
      Dict((<<"x">> :> Prim(2)) @@ (<<"y">> :> Prim(3))),
      Dict((<<"y">> :> Prim(4)) @@ (<<"g">> :> Dict(<<"z">> :> Prim(5)))),
      Dict(<<"g">> :> List(<<Dict(<<"z">> :> Prim(6)), Dict(EmptyDict)>>)) }

ElemLists == UNION {[1..n -> ElemDocs] : n \in 0..MaxLen}

SubDocs ==
    { Dict(<<"c">> :> Prim(1)),
      Dict(<<"b">> :> Dict(EmptyDict)) }

SampleData ==
    {Dict((<<"a">> :> a) @@ (<<"f">> :> List(l))) : a \in SubDocs, l \in ElemLists}
    \cup {Dict(<<"f">> :> List(<<Dict(<<"x">> :> Prim(1)), Prim(7)>>))}

CopyPaths ==
    { Str(<<<<"a">>>>), Str(<<<<"a">>, <<"b">>>>), Str(<<<<"a">>, <<"c">>>>),
      Str(<<<<"a">>, <<"b">>, <<"d">>>>), Str(<<<<"a">>, <<"c">>, <<"d">>>>),
      Str(<<<<"f">>>>), Str(<<<<"f">>, <<"x">>>>), Str(<<<<"f">>, <<"y">>>>),
      Str(<<<<"f">>, <<"g">>, <<"z">>>>), Str(<<<<"q">>>>) }

Projections == {P \in SUBSET CopyPaths : Cardinality(P) <= MaxPaths}

(***************************************************************************)
(* project_dict as a state machine: one step per projection path, in the   *)
(* order of sorted(projection).                                            *)
(***************************************************************************)
CopyInit ==
    /\ data \in SampleData
    /\ projection \in Projections
    /\ paths_left = Sorted(projection)
    /\ result = Dict(EmptyDict)
    /\ copy_status = "run"

CopyIdle ==
    /\ data = Dict(EmptyDict)
    /\ projection = {}
    /\ paths_left = <<>>
    /\ result = Dict(EmptyDict)
    /\ copy_status = "idle"

\* one iteration of the loop of project_dict: copy_path returns
CopyPathStep ==
    /\ copy_status = "run"
    /\ paths_left # <<>>
    /\ LET new == copy_path(Split(Head(paths_left)), data, result)
       IN /\ ~IsRaise(new)
          /\ result' = new
    /\ paths_left' = Tail(paths_left)
    /\ UNCHANGED <<data, projection, copy_status>>
    /\ UNCHANGED copy_frame

\* one iteration of the loop of project_dict: copy_path raises
CopyPathRaise ==
    /\ copy_status = "run"
    /\ paths_left # <<>>
    /\ LET new == copy_path(Split(Head(paths_left)), data, result)
       IN /\ IsRaise(new)
          /\ copy_status' = new.v
    /\ UNCHANGED <<data, projection, paths_left, result>>
    /\ UNCHANGED copy_frame

\* return result
ProjectDictReturn ==
    /\ copy_status = "run"
    /\ paths_left = <<>>
    /\ copy_status' = "returned"
    /\ UNCHANGED <<data, projection, paths_left, result>>
    /\ UNCHANGED copy_frame

CopyNext == CopyPathStep \/ CopyPathRaise \/ ProjectDictReturn


(***************************************************************************)
(* The document class (schema provider): a Task-like class with two plain  *)
(* fields, an embedded document and three reference fields.                *)
(***************************************************************************)
ID == <<"i", "d">>
F_a == <<"a">>
F_m == <<"m">>
F_ma == <<"m", "a">>
F_e == <<"e">>
F_idr == <<"i", "d", "r">>
F_em == Str(<<F_e, F_m>>)
F_n == <<"n">>
F_x == <<"x">>

\* doc_cls.get_fields()
DocFields == {ID, F_a, F_m, F_ma, F_e, F_idr}

\* doc_cls.get_reference_fields().items(), in the order of the dict
ReferenceFields ==
    << [field |-> F_m, cls |-> "M"],
       [field |-> F_idr, cls |-> "U"],
       [field |-> F_em, cls |-> "M"] >>

RefFieldNames == {ReferenceFields[i].field : i \in DOMAIN ReferenceFields}

RefCls(ref_field) ==
    ReferenceFields[CHOOSE i \in DOMAIN ReferenceFields :
                        ReferenceFields[i].field = ref_field].cls

\* cls_.get_fields() of the referenced classes
ClsFields(cls) == IF cls = "M" THEN {ID, F_n, F_x} ELSE {ID, F_n}

(***************************************************************************)
(* ProjectionHelper._collect_projection_fields                             *)
(***************************************************************************)

\* the conditions under which the inner loop reaches the append for ref
MatchesRef(field, ref_field) ==
    /\ StartsWith(field, ref_field)
    /\ field # ref_field
    /\ StartsWith(SliceFrom(field, Len(ref_field)), <<SEP>>)

\* the inner loop breaks at the first reference field that matches
MatchingRef(field) ==
    LET hits == {i \in DOMAIN ReferenceFields :
                     MatchesRef(field, ReferenceFields[i].field)}
    IN IF hits = {} THEN 0
       ELSE CHOOSE i \in hits : \A j \in hits : i <= j

\* ref_projection_info, as the set of its tuples
RefProjectionInfo(fields) ==
    { LET r == ReferenceFields[MatchingRef(f)]
      IN <<r.field, r.cls, SliceFrom(SliceFrom(f, Len(r.field)), 1)>> :
        f \in {g \in fields : MatchingRef(g) # 0} }

\* the else branch of the inner loop: strip a trailing '.*'
StripStar(field) ==
    IF EndsWith(field, <<SEP, "*">>) THEN DropLast(field, 2) ELSE field

LocalFields(fields) == {StripStar(f) : f \in {g \in fields : MatchingRef(g) = 0}}

(***************************************************************************)
(* ProjectionHelper._parse_projection                                      *)
(***************************************************************************)
normalize_cls_projection(cls_fields, fields) ==
    IF STAR \in fields THEN (fields \ {STAR}) \cup cls_fields ELSE fields

compute_ref_cls_projection(cls, group) ==
    normalize_cls_projection(ClsFields(cls),
                             {x[3] : x \in {y \in group : y[3] # EmptyStr}})

RefProjectionOf(info) ==
    [r \in {x[1] : x \in info} |->
        [cls |-> RefCls(r),
         only |-> compute_ref_cls_projection(RefCls(r),
                                             {x \in info : x[1] = r})]]

\* keep only the top-level field when a field is a subfield of another
CollapseNothing(fields) == fields
CollapseSubfields(fields) ==
    {f \in fields :
        ~\E other_field \in fields \ {f} :
            StartsWith(f, other_field \o <<SEP>>)}

InvalidFields(fields) == {f \in fields : Split(f)[1] \notin DocFields}

\* join mode: the loop over set(ref_projection).difference(doc_projection)
\* in every order a set can be iterated in; the set of possible results
RECURSIVE JoinModeFields(_, _)
JoinModeFields(fields, pending) ==
    IF pending = {} THEN {fields}
    ELSE UNION { JoinModeFields(
                     IF \E f \in fields : StartsWith(field, f)
                     THEN fields
                     ELSE fields \cup {field},
                     pending \ {field}) : field \in pending }

\* the outcomes of _parse_projection(projection)
parse_projection(fields) ==
    IF fields = {}
    THEN {[status |-> "unset", doc |-> {}, ref |-> EmptyDict]}
    ELSE IF EmptyStr \in LocalFields(fields)
    THEN {[status |-> "InvalidFields", doc |-> {}, ref |-> EmptyDict]}
    ELSE LET ref == RefProjectionOf(RefProjectionInfo(fields))
             doc1 == normalize_cls_projection(
                         DocFields,
                         (LocalFields(fields) \ DOMAIN ref) \cup {ID})
             doc2 == CollapseSubfields(doc1)
         IN IF InvalidFields(doc2) # {}
            THEN {[status |-> "InvalidFields", doc |-> {}, ref |-> EmptyDict]}
            ELSE IF DOMAIN ref # {}
            THEN {[status |-> "planned", doc |-> d, ref |-> ref] :
                     d \in JoinModeFields(doc2, (DOMAIN ref) \ doc2)}
            ELSE {[status |-> "planned", doc |-> doc2, ref |-> ref]}

\* do_projection: the projection handed to projection_func
\* (none = TRUE stands for projection=None)
DocOnlyWithoutId(only) ==
    LET doc_only == {f \in only : f # EmptyStr}
    IN IF doc_only # {}
       THEN [none |-> FALSE, fields |-> doc_only]
       ELSE [none |-> TRUE, fields |-> {}]
DocOnly(only) ==
    LET doc_only == {f \in only : f # EmptyStr}
    IN IF doc_only # {}
       THEN [none |-> FALSE, fields |-> {ID} \cup doc_only]
       ELSE [none |-> TRUE, fields |-> {}]

(***************************************************************************)
(* Construction of a ProjectionHelper as a state machine.                  *)
(***************************************************************************)
CandidatePaths ==
    { F_a, Str(<<F_a, <<"b">>>>), STAR, F_m, Str(<<F_m, F_n>>),
      Str(<<F_m, STAR>>), Str(<<F_m, EmptyStr>>), F_ma,
      Str(<<F_idr, F_n>>), F_e, Str(<<F_e, F_x>>), Str(<<F_em, F_n>>),
      Str(<<F_em, F_x>>), <<"z">>, Str(<<EmptyStr, STAR>>) }

Requests == {R \in SUBSET CandidatePaths : Cardinality(R) <= MaxRequest}

PlanInit ==
    /\ request \in Requests
    /\ plan_pc = "new"
    /\ doc_projection = {}
    /\ ref_projection = EmptyDict

PlanIdle ==
    /\ request = {}
    /\ plan_pc = "idle"
    /\ doc_projection = {}
    /\ ref_projection = EmptyDict

\* __init__ with an empty projection: _parse_projection returns at once
ParseProjectionEmpty ==
    /\ plan_pc = "new"
    /\ \E o \in parse_projection(request) :
          /\ o.status = "unset"
          /\ plan_pc' = "planned"
          /\ doc_projection' = o.doc
          /\ ref_projection' = o.ref
    /\ UNCHANGED request
    /\ UNCHANGED plan_frame

\* __init__ where _parse_projection raises errors.bad_request.InvalidFields
ParseProjectionRaise ==
    /\ plan_pc = "new"
    /\ \E o \in parse_projection(request) :
          /\ o.status = "InvalidFields"
          /\ plan_pc' = "InvalidFields"
    /\ UNCHANGED <<request, doc_projection, ref_projection>>
    /\ UNCHANGED plan_frame

\* __init__ where _parse_projection sets _doc_projection and _ref_projection
ParseProjection ==
    /\ plan_pc = "new"
    /\ \E o \in parse_projection(request) :
          /\ o.status = "planned"
          /\ plan_pc' = "planned"
          /\ doc_projection' = o.doc
          /\ ref_projection' = o.ref
    /\ UNCHANGED request
    /\ UNCHANGED plan_frame

PlanNext == ParseProjectionEmpty \/ ParseProjectionRaise \/ ParseProjection

(***************************************************************************)
(* _ReferenceProxy and _ProxyManager.                                      *)
(*                                                                         *)
(* Ids are integers; NoneId is the falsy id.  The proxy objects created by *)
(* the manager live on a heap: a function from object identities to dicts. *)
(* The identity of an object is <<id, n>>: the n-th object the manager     *)
(* created for that id, so that "the same instance" is equality of         *)
(* identities.  proxies is _ProxyManager._proxies: id -> object identity.  *)
(***************************************************************************)
NoneId == 0
Truthy(id) == id # NoneId

\* _ReferenceProxy(id): the content of the new dict
ReferenceProxy(id) == IF Truthy(id) THEN (ID :> id) ELSE EmptyDict

\* _ProxyManager.add(id), executed under the lock
NoRef == <<>>
NewObject(hp, id) == <<id, Cardinality({o \in DOMAIN hp : o[1] = id}) + 1>>

Add(px, hp, id) ==
    IF id \in DOMAIN px
    THEN [proxies |-> px, heap |-> hp, proxy |-> px[id]]
    ELSE LET o == NewObject(hp, id)
         IN [proxies |-> (id :> o) @@ px,
             heap |-> (o :> ReferenceProxy(id)) @@ hp,
             proxy |-> o]

\* _ProxyManager.update(result): the heap after proxy.update(result)
Update(px, hp, res) ==
    IF ID \in DOMAIN res /\ res[ID] \in DOMAIN px
    THEN [hp EXCEPT ![px[res[ID]]] = res @@ @]
    ELSE hp

(***************************************************************************)
(* Values held at a reference field of a result document.                  *)
(***************************************************************************)
RawSlot(id) == [k |-> "raw", id |-> id, ref |-> NoRef, val |-> EmptyDict]
\* a proxy object of the manager
ProxySlot(ref) == [k |-> "proxy", id |-> NoneId, ref |-> ref, val |-> EmptyDict]
\* a _ReferenceProxy built outside of the manager
BareSlot(val) == [k |-> "bare", id |-> NoneId, ref |-> NoRef, val |-> val]
\* a _ReferenceProxy built outside of the manager around a proxy object
WrappedSlot(ref) == [k |-> "wrapped", id |-> NoneId, ref |-> ref, val |-> EmptyDict]

\* factory=_ReferenceProxy applied to the value found at a location
ReferenceProxySlot(hp, target) ==
    IF target.k = "raw" THEN BareSlot(ReferenceProxy(target.id))
    ELSE IF target.k = "proxy"
    THEN IF hp[target.ref] # EmptyDict
         THEN WrappedSlot(target.ref)
         ELSE BareSlot(EmptyDict)
    ELSE IF target.val # EmptyDict \/ target.k = "wrapped"
    THEN WrappedSlot(NoRef)
    ELSE BareSlot(EmptyDict)

(***************************************************************************)
(* The stored documents and the query executor (projection_func).          *)
(***************************************************************************)
IdsOfCls(cls) == IF cls = "M" THEN {1, 2} ELSE {3}

\* the stored document with this id
Stored(id) ==
    IF id \in IdsOfCls("M")
    THEN (ID :> id) @@ (F_n :> 10 + id) @@ (F_x :> 20 + id)
    ELSE (ID :> id) @@ (F_n :> 10 + id)

\* a stored document as returned under a projection
Projected(doc, only) ==
    IF only.none THEN doc
    ELSE [f \in (DOMAIN doc) \cap only.fields |-> doc[f]]

RECURSIVE IdSeq(_)
IdSeq(S) ==
    IF S = {} THEN <<>>
    ELSE LET m == CHOOSE x \in S : \A y \in S : x <= y
         IN <<m>> \o IdSeq(S \ {m})

\* the documents a sub-query returns when it finds the ids of found
QueryResult(found, only) ==
    [j \in 1..Cardinality(found) |-> Projected(Stored(IdSeq(found)[j]), only)]

(***************************************************************************)
(* Result documents: the reference fields a document has, with the raw id  *)
(* (possibly the falsy id) each of them holds.                             *)
(***************************************************************************)
SampleDocs ==
    << (F_m :> 1) @@ (F_em :> 1) @@ (F_idr :> 3),
       (F_m :> 1) @@ (F_em :> 2) @@ (F_idr :> NoneId),
       (F_m :> NoneId) @@ (F_em :> 2) @@ (F_idr :> 3) >>

\* the batches of MaxDocs documents, up to the order of the documents
Batches ==
    { b \in [1..MaxDocs -> DOMAIN SampleDocs] :
        \A i \in 1..(Len(b) - 1) : b[i] <= b[i + 1] }

BatchDocs(b) ==
    [d \in 1..Len(b) |->
        [f \in DOMAIN SampleDocs[b[d]] |-> RawSlot(SampleDocs[b[d]][f])]]

\* the requests the helpers of the join model are built with
JoinRequests ==
    { {Str(<<F_m, F_n>>)},
      {Str(<<F_m, F_n>>), Str(<<F_em, F_x>>)},
      {Str(<<F_m, EmptyStr>>)},
      {F_a} }

(***************************************************************************)
(* ProjectionHelper.project as a state machine.                            *)
(*                                                                         *)
(* pc is the position of the caller of project(); a task is one call of    *)
(* do_projection, keyed by <<number of the project() call, reference       *)
(* field>>.  A document object is identified by <<call, index>>.           *)
(***************************************************************************)
JoinInit ==
    /\ request \in JoinRequests
    /\ plan_pc = "planned"
    /\ \E o \in parse_projection(request) :
          /\ o.status = "planned"
          /\ doc_projection = o.doc
          /\ ref_projection = o.ref
    /\ should_expand \in BOOLEAN
    /\ proxies = EmptyDict
    /\ heap = EmptyDict
    /\ ncalls = 0
    /\ pc = "idle"
    /\ results = <<>>
    /\ raw_results = <<>>
    /\ cached_results_paths = EmptyDict
    /\ tasks = EmptyDict
    /\ item_idx = 0

JoinIdle ==
    /\ should_expand = FALSE
    /\ ncalls = 0
    /\ pc = "idle"
    /\ results = <<>>
    /\ raw_results = <<>>
    /\ cached_results_paths = EmptyDict
    /\ tasks = EmptyDict
    /\ item_idx = 0

ManagerIdle ==
    /\ proxies = EmptyDict
    /\ heap = EmptyDict

\* ref_projection.items(), in the order of the dict (sorted by field)
RefItems == Sorted(DOMAIN ref_projection)

InFlight(st) == st \in {"running", "returned"}

\* the tasks of the current call of project(), in the order of items
Items == SelectSeq(RefItems, LAMBDA r : <<ncalls, r>> \in DOMAIN tasks)

\* the paths of obj that _search caches under id(obj)
CacheWith(cache, call, docs) ==
    [o \in (DOMAIN cache) \cup {<<call, d>> : d \in DOMAIN docs} |->
        IF o \in DOMAIN cache THEN cache[o] ELSE DOMAIN docs[o[2]]]

\* the caller enters project(results, projection_func)
StartProject ==
    /\ pc \in {"idle", "done", "raised"}
    /\ ncalls < MaxCalls
    /\ \E b \in Batches :
          /\ results' = BatchDocs(b)
          /\ raw_results' = BatchDocs(b)
    /\ ncalls' = ncalls + 1
    /\ tasks' = [key \in {q \in DOMAIN tasks : InFlight(tasks[q].st)} |->
                    tasks[key]]
    /\ item_idx' = 1
    /\ pc' = IF DOMAIN ref_projection # {} THEN "collect"
             ELSE IF should_expand THEN "expand"
             ELSE "done"
    /\ UNCHANGED <<should_expand, cached_results_paths, proxies, heap>>
    /\ UNCHANGED join_frame

\* _search(cls, res, ref_field_name, factory=self._proxy_manager.add) over
\* the documents d..Len(docs): the manager, the documents and the targets
RECURSIVE SearchAndAdd(_, _, _, _, _, _)
SearchAndAdd(px, hp, docs, cache, ref_field, d) ==
    IF d > Len(docs)
    THEN [proxies |-> px, heap |-> hp, docs |-> docs, targets |-> {}]
    ELSE IF ref_field \notin cache[<<ncalls, d>>]
    THEN SearchAndAdd(px, hp, docs, cache, ref_field, d + 1)
    ELSE LET target == docs[d][ref_field]
             a == Add(px, hp, target.id)
             rest == SearchAndAdd(a.proxies, a.heap,
                                  [docs EXCEPT ![d][ref_field] =
                                                   ProxySlot(a.proxy)],
                                  cache, ref_field, d + 1)
         IN [rest EXCEPT !.targets = @ \cup {target.id}]

\* collect_ids(ref_field_name) for the next item of ref_projection.items()
CollectIds ==
    /\ pc = "collect"
    /\ item_idx <= Len(RefItems)
    /\ LET ref_field == RefItems[item_idx]
           cache == CacheWith(cached_results_paths, ncalls, results)
           s == SearchAndAdd(proxies, heap, results, cache, ref_field, 1)
           ids == {i \in s.targets : Truthy(i)}
       IN /\ cached_results_paths' = cache
          /\ proxies' = s.proxies
          /\ heap' = s.heap
          /\ results' = s.docs
          /\ tasks' = IF ids # {}
                      THEN tasks @@ (<<ncalls, ref_field>> :>
                               [st |-> "item", ids |-> ids, res |-> <<>>,
                                i |-> 1])
                      ELSE tasks
    /\ item_idx' = item_idx + 1
    /\ UNCHANGED <<should_expand, ncalls, pc, raw_results>>
    /\ UNCHANGED join_frame

AfterJoin == IF should_expand THEN "expand" ELSE "done"

\* if items: is false
NoItems ==
    /\ pc = "collect"
    /\ item_idx > Len(RefItems)
    /\ Items = <<>>
    /\ pc' = AfterJoin
    /\ UNCHANGED <<should_expand, ncalls, results, raw_results,
                   cached_results_paths, tasks, item_idx,
                   proxies, heap>>
    /\ UNCHANGED join_frame

\* len(ref_projection) == 1: the caller runs do_projection(items[0]) itself
ProjectSync ==
    /\ pc = "collect"
    /\ item_idx > Len(RefItems)
    /\ Items # <<>>
    /\ Cardinality(DOMAIN ref_projection) = 1
    /\ tasks' = [tasks EXCEPT ![<<ncalls, Items[1]>>].st = "running"]
    /\ item_idx' = 1
    /\ pc' = "resolve"
    /\ UNCHANGED <<should_expand, ncalls, results, raw_results,
                   cached_results_paths, proxies, heap>>
    /\ UNCHANGED join_frame

\* self.pool.map(do_projection, items): every item is submitted to the pool
ProjectPool ==
    /\ pc = "collect"
    /\ item_idx > Len(RefItems)
    /\ Items # <<>>
    /\ Cardinality(DOMAIN ref_projection) # 1
    /\ tasks' = [key \in DOMAIN tasks |->
                    IF key[1] = ncalls
                    THEN [tasks[key] EXCEPT !.st = "queued"]
                    ELSE tasks[key]]
    /\ item_idx' = 1
    /\ pc' = "resolve"
    /\ UNCHANGED <<should_expand, ncalls, results, raw_results,
                   cached_results_paths, proxies, heap>>
    /\ UNCHANGED join_frame

\* a worker of the pool starts a submitted do_projection
TaskStart ==
    \E key \in DOMAIN tasks :
    /\ tasks[key].st = "queued"
    /\ tasks' = [tasks EXCEPT ![key].st = "running"]
    /\ UNCHANGED <<should_expand, ncalls, pc, results, raw_results,
                   cached_results_paths, item_idx, proxies, heap>>
    /\ UNCHANGED join_frame

\* projection_func(doc_type=, projection=doc_only, ids=ids) returns
TaskQuery ==
    \E key \in DOMAIN tasks :
    /\ tasks[key].st = "running"
    /\ \E found \in SUBSET tasks[key].ids :
          tasks' = [tasks EXCEPT
              ![key].st = "returned",
              ![key].res = QueryResult(found,
                               DocOnly(ref_projection[key[2]].only))]
    /\ UNCHANGED <<should_expand, ncalls, pc, results, raw_results,
                   cached_results_paths, item_idx, proxies, heap>>
    /\ UNCHANGED join_frame

\* projection_func raises
TaskQueryRaise ==
    \E key \in DOMAIN tasks :
    /\ tasks[key].st = "running"
    /\ tasks' = [tasks EXCEPT ![key].st = "failed"]
    /\ UNCHANGED <<should_expand, ncalls, pc, results, raw_results,
                   cached_results_paths, item_idx, proxies, heap>>
    /\ UNCHANGED join_frame

\* one iteration of the loop of do_projection: self._proxy_manager.update(res)
TaskUpdate ==
    \E key \in DOMAIN tasks :
    /\ tasks[key].st = "returned"
    /\ tasks[key].i <= Len(tasks[key].res)
    /\ heap' = Update(proxies, heap, tasks[key].res[tasks[key].i])
    /\ tasks' = [tasks EXCEPT ![key].i = @ + 1]
    /\ UNCHANGED <<should_expand, ncalls, pc, results, raw_results,
                   cached_results_paths, item_idx, proxies>>
    /\ UNCHANGED join_frame

\* do_projection returns
TaskReturn ==
    \E key \in DOMAIN tasks :
    /\ tasks[key].st = "returned"
    /\ tasks[key].i > Len(tasks[key].res)
    /\ tasks' = [tasks EXCEPT ![key].st = "done"]
    /\ UNCHANGED <<should_expand, ncalls, pc, results, raw_results,
                   cached_results_paths, item_idx, proxies, heap>>
    /\ UNCHANGED join_frame

\* the result of a do_projection is available to the caller
FutureDoneEarly(st) == st \in {"running", "returned", "done"}
FutureDone(st) == st = "done"

\* the caller gets the result of the next do_projection (directly, or from
\* the iterator of pool.map)
AwaitResult ==
    /\ pc = "resolve"
    /\ item_idx <= Len(Items)
    /\ FutureDone(tasks[<<ncalls, Items[item_idx]>>].st)
    /\ item_idx' = item_idx + 1
    /\ pc' = IF item_idx = Len(Items) THEN AfterJoin ELSE "resolve"
    /\ UNCHANGED <<should_expand, ncalls, results, raw_results,
                   cached_results_paths, tasks, proxies, heap>>
    /\ UNCHANGED join_frame

\* the next do_projection has raised: the exception leaves project(); the
\* iterator of pool.map cancels the futures that have not started
AwaitRaise ==
    /\ pc = "resolve"
    /\ item_idx <= Len(Items)
    /\ tasks[<<ncalls, Items[item_idx]>>].st = "failed"
    /\ tasks' = [key \in DOMAIN tasks |->
                    IF tasks[key].st = "queued"
                    THEN [tasks[key] EXCEPT !.st = "cancelled"]
                    ELSE tasks[key]]
    /\ pc' = "raised"
    /\ UNCHANGED <<should_expand, ncalls, results, raw_results,
                   cached_results_paths, item_idx, proxies, heap>>
    /\ UNCHANGED join_frame

\* the reference fields do_expand_reference_ids expands
ExpandEveryField(skip_fields) == RefFieldNames
ExpandFields(skip_fields) == RefFieldNames \ skip_fields

\* if self._should_expand_reference_ids: do_expand_reference_ids for every
\* result, then return results
ExpandReferenceIds ==
    /\ pc = "expand"
    /\ LET cache == CacheWith(cached_results_paths, ncalls, results)
       IN /\ cached_results_paths' = cache
          /\ results' =
               [d \in DOMAIN results |->
                  [f \in DOMAIN results[d] |->
                     IF /\ f \in ExpandFields(DOMAIN ref_projection)
                        /\ f \in cache[<<ncalls, d>>]
                     THEN ReferenceProxySlot(heap, results[d][f])
                     ELSE results[d][f]]]
    /\ pc' = "done"
    /\ UNCHANGED <<should_expand, ncalls, raw_results, tasks, item_idx, proxies, heap>>
    /\ UNCHANGED join_frame

JoinNext ==
    \/ StartProject
    \/ CollectIds
    \/ NoItems
    \/ ProjectSync
    \/ ProjectPool
    \/ TaskStart
    \/ TaskQuery
    \/ TaskQueryRaise
    \/ TaskUpdate
    \/ TaskReturn
    \/ AwaitResult
    \/ AwaitRaise
    \/ ExpandReferenceIds

(***************************************************************************)
(* The id-collection pass of project() run by concurrent callers.          *)
(*                                                                         *)
(* The callers share the helper, hence its _ProxyManager.  A caller walks  *)
(* its own result documents, join spec by join spec, and replaces the      *)
(* value at every location by the return value of _ProxyManager.add.  The  *)
(* statements of add are separate steps; lock is the class-level           *)
(* threading.Lock: 0 when released, else the caller that holds it.         *)
(***************************************************************************)
Callers == {1, 2}

\* the requests the helpers of the concurrent model are built with
CollectRequests ==
    { {Str(<<F_m, F_n>>)},
      {Str(<<F_m, F_n>>), Str(<<F_em, F_x>>)} }

\* the lock can be acquired
LockFreeAlways(l) == TRUE
LockFree(l) == l = 0

CollectInit ==
    /\ request \in CollectRequests
    /\ plan_pc = "planned"
    /\ \E o \in parse_projection(request) :
          /\ o.status = "planned"
          /\ doc_projection = o.doc
          /\ ref_projection = o.ref
    /\ proxies = EmptyDict
    /\ heap = EmptyDict
    /\ lock = 0
    /\ c_pc = [t \in Callers |-> "idle"]
    /\ c_batch = [t \in Callers |-> <<>>]
    /\ c_results = [t \in Callers |-> <<>>]
    /\ c_pos = [t \in Callers |-> 0]
    /\ c_proxy = [t \in Callers |-> NoRef]

CollectIdle ==
    /\ lock = 0
    /\ c_pc = [t \in Callers |-> "idle"]
    /\ c_batch = [t \in Callers |-> <<>>]
    /\ c_results = [t \in Callers |-> <<>>]
    /\ c_pos = [t \in Callers |-> 0]
    /\ c_proxy = [t \in Callers |-> NoRef]

\* the locations caller t visits: for every item of ref_projection, every
\* document of its results
NumLocations(t) == Len(RefItems) * Len(c_results[t])
LocField(t) == RefItems[((c_pos[t] - 1) \div Len(c_results[t])) + 1]
LocDoc(t) == ((c_pos[t] - 1) % Len(c_results[t])) + 1
\* the value _search found at the location: the argument of add
LocId(t) == c_results[t][LocDoc(t)][LocField(t)].id

\* caller t enters project(results, projection_func)
CallProject(t) ==
    /\ c_pc[t] = "idle"
    /\ c_pos[t] = 0
    /\ \E b \in Batches :
          /\ c_batch' = [c_batch EXCEPT ![t] = b]
          /\ c_results' = [c_results EXCEPT ![t] = BatchDocs(b)]
    /\ c_pos' = [c_pos EXCEPT ![t] = 1]
    /\ c_pc' = [c_pc EXCEPT ![t] = "search"]
    /\ UNCHANGED <<lock, c_proxy, proxies, heap>>
    /\ UNCHANGED collect_frame

\* add: with self.lock
AddLock(t) ==
    /\ c_pc[t] = "search"
    /\ LockFree(lock)
    /\ lock' = t
    /\ c_pc' = [c_pc EXCEPT ![t] = "locked"]
    /\ UNCHANGED <<c_batch, c_results, c_pos, c_proxy, proxies, heap>>
    /\ UNCHANGED collect_frame

\* add: proxy = self._proxies.get(id)
AddGet(t) ==
    /\ c_pc[t] = "locked"
    /\ c_proxy' = [c_proxy EXCEPT ![t] =
                      IF LocId(t) \in DOMAIN proxies
                      THEN proxies[LocId(t)]
                      ELSE NoRef]
    /\ c_pc' = [c_pc EXCEPT ![t] = "got"]
    /\ UNCHANGED <<lock, c_batch, c_results, c_pos, proxies, heap>>
    /\ UNCHANGED collect_frame

\* add: if proxy is None: proxy = self._proxies[id] = _ReferenceProxy(id)
AddCreate(t) ==
    /\ c_pc[t] = "got"
    /\ c_proxy[t] = NoRef
    /\ LET o == NewObject(heap, LocId(t))
       IN /\ proxies' = (LocId(t) :> o) @@ proxies
          /\ heap' = (o :> ReferenceProxy(LocId(t))) @@ heap
          /\ c_proxy' = [c_proxy EXCEPT ![t] = o]
    /\ c_pc' = [c_pc EXCEPT ![t] = "have"]
    /\ UNCHANGED <<lock, c_batch, c_results, c_pos>>
    /\ UNCHANGED collect_frame

\* add: proxy is not None
AddFound(t) ==
    /\ c_pc[t] = "got"
    /\ c_proxy[t] # NoRef
    /\ c_pc' = [c_pc EXCEPT ![t] = "have"]
    /\ UNCHANGED <<lock, c_batch, c_results, c_pos, c_proxy, proxies, heap>>
    /\ UNCHANGED collect_frame

\* add: return proxy, which releases the lock; _search stores the proxy at
\* the location and goes on to the next one
AddReturn(t) ==
    /\ c_pc[t] = "have"
    /\ lock' = 0
    /\ c_results' = [c_results EXCEPT ![t][LocDoc(t)][LocField(t)] =
                        ProxySlot(c_proxy[t])]
    /\ c_proxy' = [c_proxy EXCEPT ![t] = NoRef]
    /\ c_pos' = [c_pos EXCEPT ![t] = @ + 1]
    /\ c_pc' = [c_pc EXCEPT ![t] =
                   IF c_pos[t] = NumLocations(t) THEN "collected"
                   ELSE "search"]
    /\ UNCHANGED <<c_batch, proxies, heap>>
    /\ UNCHANGED collect_frame

CollectNext ==
    \/ \E t \in Callers : CallProject(t)
    \/ \E t \in Callers : AddLock(t)
    \/ \E t \in Callers : AddGet(t)
    \/ \E t \in Callers : AddCreate(t)
    \/ \E t \in Callers : AddFound(t)
    \/ \E t \in Callers : AddReturn(t)

(***************************************************************************)
(* Specifications: one per component; the variables of the other           *)
(* components stay at their idle values.                                   *)
(***************************************************************************)
InitCopy == CopyInit /\ PlanIdle /\ ManagerIdle /\ JoinIdle /\ CollectIdle
SpecCopy == InitCopy /\ [][CopyNext]_vars

InitPlan == PlanInit /\ CopyIdle /\ ManagerIdle /\ JoinIdle /\ CollectIdle
SpecPlan == InitPlan /\ [][PlanNext]_vars

InitJoin == JoinInit /\ CopyIdle /\ CollectIdle
SpecJoin == InitJoin /\ [][JoinNext]_vars

InitCollect == CollectInit /\ CopyIdle /\ JoinIdle
SpecCollect == InitCollect /\ [][CollectNext]_vars

(***************************************************************************)
(* Properties of project_dict.                                             *)
(***************************************************************************)

\* a path is absent from the source: some segment is missing while all the
\* earlier segments are maps
RECURSIVE AbsentFromSource(_, _)
AbsentFromSource(parts, src) ==
    IF parts[1] \notin DOMAIN src.v THEN TRUE
    ELSE IF Len(parts) = 1 THEN FALSE
    ELSE IF IsDict(src.v[parts[1]])
    THEN AbsentFromSource(Tail(parts), src.v[parts[1]])
    ELSE FALSE

\* C6: processing a requested path that is absent from the source raises no
\* error and leaves the destination exactly as it was before the path was
\* processed (no key, no empty map, no partial entry for it or its prefixes).
C6_AbsentPathLeavesDestination ==
    [][(/\ copy_status = "run"
        /\ paths_left # <<>>
        /\ AbsentFromSource(Split(Head(paths_left)), data))
       => (copy_status' = "run" /\ result' = result)]_vars

IsListOfDicts(x) == IsList(x) /\ \A i \in 1..Len(x.v) : IsDict(x.v[i])

\* the sub-paths requested under the top-level field k
SubPathsUnder(paths, k) ==
    { JoinParts(Tail(Split(p))) :
        p \in {q \in paths : Len(Split(q)) >= 2 /\ Split(q)[1] = k} }

\* C7: a source field that is a sequence of N maps, projected on a set of
\* sub-paths, yields a destination sequence of exactly N elements, the i-th
\* being the projection of the i-th source element on those sub-paths; and a
\* destination sequence that exists while later paths are processed always
\* has the length of the source sequence.
C7_ShapePreserved ==
    /\ copy_status # "ValueError"
    /\ \A k \in DOMAIN data.v :
          (/\ k \in DOMAIN result.v
           /\ IsList(data.v[k])
           /\ IsList(result.v[k]))
          => Len(result.v[k].v) = Len(data.v[k].v)
    /\ copy_status = "returned" =>
          \A k \in DOMAIN data.v :
             (/\ IsListOfDicts(data.v[k])
              /\ k \notin projection
              /\ SubPathsUnder(projection, k) # {})
             => /\ k \in DOMAIN result.v
                /\ IsList(result.v[k])
                /\ Len(result.v[k].v) = Len(data.v[k].v)
                /\ \A i \in 1..Len(data.v[k].v) :
                      result.v[k].v[i] =
                          project_dict(data.v[k].v[i],
                                       SubPathsUnder(projection, k))

C7_Witness ==
    /\ copy_status = "returned"
    /\ <<"f">> \in DOMAIN data.v
    /\ IsListOfDicts(data.v[<<"f">>])
    /\ Len(data.v[<<"f">>].v) = 2
    /\ SubPathsUnder(projection, <<"f">>) = {<<"x">>, Str(<<<<"g">>, <<"z">>>>)}
    /\ <<"f">> \notin projection
    /\ <<"f">> \in DOMAIN result.v
    /\ Len(result.v[<<"f">>].v) = 2
    /\ \E i \in 1..2 : <<"g">> \in DOMAIN result.v[<<"f">>].v[i].v
    /\ \E i \in 1..2 : <<"x">> \in DOMAIN result.v[<<"f">>].v[i].v

(***************************************************************************)
(* Properties of projection planning.                                      *)
(***************************************************************************)

\* field is a strict dotted descendant of ancestor (segment-wise)
IsStrictDescendant(field, ancestor) ==
    LET fs == Split(field)
        as == Split(ancestor)
    IN /\ Len(fs) > Len(as)
       /\ SubSeq(fs, 1, Len(as)) = as

\* the non-empty suffixes requested under a reference field, '*' expanded
RequestedSuffixes(ref_field) ==
    LET sfx == { JoinParts(SubSeq(Split(f), Len(Split(ref_field)) + 1,
                                  Len(Split(f)))) :
                   f \in {g \in request : IsStrictDescendant(g, ref_field)} }
            \ {EmptyStr}
    IN IF STAR \in sfx
       THEN (sfx \ {STAR}) \cup ClsFields(RefCls(ref_field))
       ELSE sfx

JoinedAsRequested ==
    DOMAIN ref_projection =
        {r \in RefFieldNames : \E f \in request : IsStrictDescendant(f, r)}

\* C5 as stated: one join spec per reference field with a requested strict
\* descendant, and the projection handed to the query executor is exactly
\* {id} united with the requested suffixes; it always contains id.
C5_SubProjectionAlwaysHasId ==
    plan_pc = "planned" =>
        /\ JoinedAsRequested
        /\ \A r \in DOMAIN ref_projection :
              DocOnly(ref_projection[r].only) =
                  [none |-> FALSE, fields |-> {ID} \cup RequestedSuffixes(r)]

\* C5 amended: one join spec per reference field with a requested strict
\* descendant; the projection handed to the query executor is {id} united
\* with the requested non-empty suffixes when there is one, and None (all
\* fields) when only the empty suffix was requested.
C5_SubProjection ==
    plan_pc = "planned" =>
        /\ JoinedAsRequested
        /\ \A r \in DOMAIN ref_projection :
              DocOnly(ref_projection[r].only) =
                  IF RequestedSuffixes(r) # {}
                  THEN [none |-> FALSE,
                        fields |-> {ID} \cup RequestedSuffixes(r)]
                  ELSE [none |-> TRUE, fields |-> {}]

C5_Witness ==
    /\ plan_pc = "planned"
    /\ request = {Str(<<F_m, F_n>>), Str(<<F_m, STAR>>), Str(<<F_em, F_x>>)}
    /\ DOMAIN ref_projection = {F_m, F_em}
    /\ DocOnly(ref_projection[F_m].only).fields = {ID, F_n, F_x}
    /\ DocOnly(ref_projection[F_em].only).fields = {ID, F_x}

\* C9: after planning, no field of the local projection is a strict dotted
\* descendant of another field of the local projection (id is always there),
\* also after the joined reference fields have been added.
C9_PrefixCollapse ==
    (plan_pc = "planned" /\ request # {}) =>
        /\ ID \in doc_projection
        /\ \A f \in doc_projection : \A g \in doc_projection :
              ~IsStrictDescendant(g, f)
        /\ \A f \in request : \A g \in request :
              (f \in doc_projection /\ IsStrictDescendant(g, f))
              => g \notin doc_projection

C9_Witness ==
    /\ plan_pc = "planned"
    /\ request = {F_a, Str(<<F_a, <<"b">>>>), Str(<<F_m, F_n>>)}
    /\ doc_projection = {ID, F_a, F_m}

\* C10: after planning with at least one join spec, the local projection
\* holds every joined reference field, or a dotted ancestor of it.
C10_JoinFieldsRetrieved ==
    plan_pc = "planned" =>
        \A r \in DOMAIN ref_projection :
            \/ r \in doc_projection
            \/ \E f \in doc_projection : IsStrictDescendant(r, f)

(***************************************************************************)
(* Properties of ProjectionHelper.project.                                 *)
(***************************************************************************)

\* the reference fields of document d, as handed to project()
JoinedFields == DOMAIN ref_projection
DocIndexes == DOMAIN raw_results

\* the ids collected for a join spec from the documents handed to project()
CollectedIds(ref_field) ==
    {raw_results[d][ref_field].id : d \in DocIndexes} \ {NoneId}

\* the ids the sub-queries of the current call of project() have returned
ReturnedThisCall ==
    UNION { {tasks[key].res[j][ID] : j \in 1..Len(tasks[key].res)} :
              key \in {q \in DOMAIN tasks : q[1] = ncalls} }

\* C2: project() returns normally only after every sub-query of a join spec
\* with a collected id has completed and every document it fetched has been
\* merged into its proxy: every location under a joined reference field that
\* referenced a fetched id then shows the fetched fields.
C2_ReturnsAfterAllMerged ==
    pc = "done" =>
        \A r \in JoinedFields :
            CollectedIds(r) # {} =>
                /\ <<ncalls, r>> \in DOMAIN tasks
                /\ tasks[<<ncalls, r>>].st = "done"
                /\ tasks[<<ncalls, r>>].ids = CollectedIds(r)
                /\ \A j \in 1..Len(tasks[<<ncalls, r>>].res) :
                      LET doc == tasks[<<ncalls, r>>].res[j]
                      IN \A d \in DocIndexes : \A f \in JoinedFields :
                            raw_results[d][f].id = doc[ID] =>
                                /\ results[d][f].k = "proxy"
                                /\ \A fld \in DOMAIN doc :
                                      /\ fld \in DOMAIN heap[results[d][f].ref]
                                      /\ heap[results[d][f].ref][fld] = doc[fld]

\* two sub-queries ran on the pool and both fetched a document
C2_Witness ==
    /\ pc = "done"
    /\ Cardinality(JoinedFields) = 2
    /\ \A r \in JoinedFields :
          /\ <<ncalls, r>> \in DOMAIN tasks
          /\ Len(tasks[<<ncalls, r>>].res) >= 1
    /\ \E d \in DocIndexes :
          /\ results[d][F_m].k = "proxy"
          /\ DOMAIN heap[results[d][F_m].ref] = {ID, F_n, F_x}

\* C3: once project() has returned with the error of a failed sub-query, no
\* sub-query of that call that is still in flight modifies a proxy.
C3_NoUpdateAfterRaise ==
    [][(pc = "raised" /\ pc' = "raised") => heap' = heap]_vars

\* C4 as stated: every call of project() works on a fresh registry, so at its
\* return a reference whose id the sub-queries of this call did not return is
\* observed as exactly {id: <id>}.
C4_FreshRegistryPerCall ==
    pc = "done" =>
        \A d \in DocIndexes : \A f \in JoinedFields :
            (/\ Truthy(raw_results[d][f].id)
             /\ raw_results[d][f].id \notin ReturnedThisCall)
            => /\ results[d][f].k = "proxy"
               /\ heap[results[d][f].ref] = (ID :> raw_results[d][f].id)

\* C8 as stated: after project() with reference-id expansion, every reference
\* field without a join spec holds a bare {id: <raw id>} built without the
\* registry, and every joined reference field still holds its registry proxy.
C8_ExpandedToIdPlaceholder ==
    (pc = "done" /\ should_expand) =>
        \A d \in DocIndexes : \A f \in DOMAIN raw_results[d] :
            IF f \in JoinedFields
            THEN results[d][f] = ProxySlot(proxies[raw_results[d][f].id])
            ELSE results[d][f] = BareSlot(ID :> raw_results[d][f].id)

\* C8 amended: ... holds a bare placeholder built without the registry,
\* {id: <raw id>} for a non-empty raw id and the empty map for an empty one,
\* and every joined reference field still holds its registry proxy.
C8_ExpandedToPlaceholder ==
    (pc = "done" /\ should_expand) =>
        \A d \in DocIndexes : \A f \in DOMAIN raw_results[d] :
            IF f \in JoinedFields
            THEN results[d][f] = ProxySlot(proxies[raw_results[d][f].id])
            ELSE results[d][f] =
                     IF raw_results[d][f].id # NoneId
                     THEN BareSlot(ID :> raw_results[d][f].id)
                     ELSE BareSlot(EmptyDict)

C8_Witness ==
    /\ pc = "done"
    /\ should_expand
    /\ JoinedFields = {F_m}
    /\ \E d \in DocIndexes :
          /\ results[d][F_m].k = "proxy"
          /\ F_n \in DOMAIN heap[results[d][F_m].ref]
          /\ results[d][F_em] = BareSlot(ID :> 2)
          /\ results[d][F_idr] = BareSlot(EmptyDict)

(***************************************************************************)
(* Properties of _ProxyManager.add under concurrent callers.               *)
(***************************************************************************)

\* the locations the collection pass of caller t has been over
Visited(t) ==
    { <<d, f>> \in (DOMAIN c_results[t]) \X (DOMAIN ref_projection) :
        c_results[t][d][f].k = "proxy" }

\* the raw reference id the location held when project() was called
RawId(t, loc) == BatchDocs(c_batch[t])[loc[1]][loc[2]].id

\* C1: within one helper, two locations of the result documents that held
\* the same raw reference id hold the same proxy instance after the
\* id-collection pass, for the callers of every thread: add looks the id up
\* and creates the proxy under the lock, so no id ever gets a second
\* instance.
C1_OneProxyPerId ==
    /\ \A o1 \in DOMAIN heap : \A o2 \in DOMAIN heap :
          o1[1] = o2[1] => o1 = o2
    /\ \A i \in DOMAIN proxies : proxies[i] \in DOMAIN heap /\ proxies[i][1] = i
    /\ \A t1 \in Callers : \A t2 \in Callers :
          \A l1 \in Visited(t1) : \A l2 \in Visited(t2) :
              RawId(t1, l1) = RawId(t2, l2) =>
                  c_results[t1][l1[1]][l1[2]].ref =
                      c_results[t2][l2[1]][l2[2]].ref

\* both callers have finished their pass over documents that share an id
C1_Witness ==
    /\ \A t \in Callers : c_pc[t] = "collected"
    /\ \E l1 \in Visited(1) : \E l2 \in Visited(2) :
          /\ Truthy(RawId(1, l1))
          /\ RawId(1, l1) = RawId(2, l2)
          /\ c_results[1][l1[1]][l1[2]].ref = proxies[RawId(1, l1)]
    /\ Cardinality(DOMAIN heap) >= 2

====
